---- MODULE Spec2Model ----
(***************************************************************************)
(* pycyqle: the recursive query compiler and row-to-model assembler of     *)
(* pycyqle/factory.py (Factory.build, Factory._build, Factory.query,       *)
(* Join.compile, Factory.standardize_order) and utils.Processor.           *)
(***************************************************************************)
EXTENDS Integers, Sequences, FiniteSets, TLC

VARIABLES
    registry,   \* the Factory objects of the metadata tree: model, _parent, _order, _processors
    model_map,  \* the root Factory's _model_map: model key -> (internal id -> model instance)
    heap,       \* the model instances constructed in the current build
    stack,      \* the active _build calls, the root level at the bottom
    mgr,        \* the data source: the queries executed, the rows served
    state,      \* where the current build call is: idle, building, select, returned, raised
    ids,        \* the ids argument of the current build call
    result,     \* what the last build call returned or raised
    callbacks,  \* the processor callbacks invoked in the current build
    std_order,  \* the normalized order the current build started from
    nbuilds,    \* the build calls made so far
    norm,       \* standardize_order applied to a shorthand, and applied again
    outer       \* the build call suspended in a callback that called build, or None

vars == <<registry, model_map, heap, stack, mgr, state, ids, result, callbacks,
          std_order, nbuilds, norm, outer>>

----------------------------------------------------------------------------
(* Bounds *)

\* rows one fetch returns at most
MaxRows == 2
\* rows the data source serves at most, over all builds
MaxTotalRows == 3
\* build calls made on the root Factory at most
MaxBuilds == 2

\* internal ids (and parent ids) the rows carry; 0 is the falsy id
RowIds == {0, 1}

----------------------------------------------------------------------------
(* Python values: None, lists, dicts with insertion order *)

None == [none |-> TRUE]
L(s) == [list |-> s]
D(pairs) == [dict |-> pairs]
IsNone(v) == "none" \in DOMAIN v
IsList(v) == "list" \in DOMAIN v
IsDict(v) == "dict" \in DOMAIN v

\* dict keys of an order: integers and strings
IntKey(i) == [int |-> i]
StrKey(s) == [str |-> s]
IsInt(k) == "int" \in DOMAIN k
CKey == StrKey("__components__")

\* a dict's entries are <<key, value>> pairs in insertion order
Has(d, k) == \E i \in 1..Len(d) : d[i][1] = k
Get(d, k) == d[CHOOSE i \in 1..Len(d) : d[i][1] = k][2]
Put(d, k, v) ==
    IF Has(d, k)
    THEN [i \in 1..Len(d) |-> IF d[i][1] = k THEN <<k, v>> ELSE d[i]]
    ELSE Append(d, <<k, v>>)
Del(d, k) == SelectSeq(d, LAMBDA kv : kv[1] # k)
DictValues(d) == [i \in 1..Len(d) |-> d[i][2]]

RECURSIVE Repeat(_, _)
Repeat(s, n) == IF n = 0 THEN "" ELSE s \o Repeat(s, n - 1)

RECURSIVE JoinStr(_, _)
JoinStr(sep, parts) ==
    IF Len(parts) = 0 THEN ""
    ELSE IF Len(parts) = 1 THEN parts[1]
    ELSE parts[1] \o sep \o JoinStr(sep, Tail(parts))

RECURSIVE Flatten(_)
Flatten(ss) == IF Len(ss) = 0 THEN <<>> ELSE Head(ss) \o Flatten(Tail(ss))

----------------------------------------------------------------------------
(* The metadata tree: a bicycle with a front wheel (to-one) and rear wheels *)
(* (to-many), both edges to the same wheel Factory with a join of the same  *)
(* table, and a wheel with spokes.                                          *)

FactoryNames == {"bicycle", "wheel", "spoke"}
RootFactory == "bicycle"

table(f) ==
    CASE f = "bicycle" -> "bicycle" [] f = "wheel" -> "wheel" [] f = "spoke" -> "spoke"

\* "" is an alias or primary key that is None
alias(f) ==
    CASE f = "bicycle" -> "" [] f = "wheel" -> "" [] f = "spoke" -> "s"

primary_key(f) ==
    CASE f = "bicycle" -> "id" [] f = "wheel" -> "id" [] f = "spoke" -> ""

prefix(f) == IF alias(f) # "" THEN alias(f) ELSE table(f)

component_map(f) ==
    CASE f = "bicycle" ->
            [tire |-> [name |-> "tire", column |-> "tire", carrier |-> "set_tire"],
             seat |-> [name |-> "seat", column |-> "seat", carrier |-> "set_seat"]]
      [] f = "wheel" ->
            [size |-> [name |-> "size", column |-> "diameter", carrier |-> "set_size"]]
      [] f = "spoke" ->
            [gauge |-> [name |-> "gauge", column |-> "gauge", carrier |-> "set_gauge"]]

has_component(f, name) == name \in DOMAIN component_map(f)
component(f, name) == component_map(f)[name]

\* an on template: literal text and {0[key]} placeholders
Lit(s) == [lit |-> s]
Ph(k) == [ph |-> k]

\* a level's query selects from its own table and joins its parent's
WheelJoin ==
    [table |-> "bicycle", alias |-> "", shoehorn |-> "",
     on |-> <<Ph("bicycle."), Lit("id = wheel.bicycle_id")>>]
SpokeJoin ==
    [table |-> "wheel", alias |-> "", shoehorn |-> "",
     on |-> <<Ph("wheel."), Lit("id = s.wheel_id")>>]

inventory_map(f) ==
    CASE f = "bicycle" ->
            [front |-> [name |-> "front", factory |-> "wheel", join |-> WheelJoin,
                        carrier |-> "set_front", single |-> TRUE],
             rear  |-> [name |-> "rear", factory |-> "wheel", join |-> WheelJoin,
                        carrier |-> "set_rear", single |-> FALSE]]
      [] f = "wheel" ->
            [spokes |-> [name |-> "spokes", factory |-> "spoke", join |-> SpokeJoin,
                         carrier |-> "set_spokes", single |-> FALSE]]
      [] f = "spoke" -> <<>>

has_inventory_item(f, name) == name \in DOMAIN inventory_map(f)
inventory(f, name) == inventory_map(f)[name]

\* a model reference: a class, or the dotted path of one
Class(n) == [isclass |-> TRUE, name |-> n]
Deferred(p) == [isclass |-> FALSE, name |-> p]

\* the key of a model reference in the model map
model_key(m) == m.name

\* a model reference used as a dict key itself: a class object equals no string
ModelAsKey(m) == IF m.isclass THEN "<class '" \o m.name \o "'>" ELSE m.name

----------------------------------------------------------------------------
(* Factory.standardize_order, Factory.order, Factory.binds *)

\* a normalization that stores the list under '__components__' back to front
RECURSIVE standardize_order_reversing(_)
standardize_order_reversing(order) ==
    LET items == IF IsDict(order) THEN order.dict
                 ELSE [i \in 1..Len(order.list) |-> <<IntKey(i - 1), order.list[i]>>]
        RECURSIVE loop(_, _)
        loop(std_, n) ==
            IF n > Len(items) THEN std_
            ELSE LET key == items[n][1]
                     value == items[n][2]
                 IN loop(IF IsInt(key)
                         THEN Put(std_, CKey, L(Append(Get(std_, CKey).list, value)))
                         ELSE IF key = CKey
                              THEN Put(std_, CKey,
                                       L([i \in 1..Len(value.list) |->
                                             value.list[Len(value.list) + 1 - i]]))
                              ELSE Put(std_, key, standardize_order_reversing(value)),
                         n + 1)
    IN D(loop(<< <<CKey, L(<<>>)>> >>, 1))

RECURSIVE standardize_order(_)
standardize_order(order) ==
    LET items == IF IsDict(order) THEN order.dict
                 ELSE [i \in 1..Len(order.list) |-> <<IntKey(i - 1), order.list[i]>>]
        RECURSIVE loop(_, _)
        loop(std_, n) ==
            IF n > Len(items) THEN std_
            ELSE LET key == items[n][1]
                     value == items[n][2]
                 IN loop(IF IsInt(key)
                         THEN Put(std_, CKey, L(Append(Get(std_, CKey).list, value)))
                         ELSE IF key = CKey
                              THEN Put(std_, CKey, value)
                              ELSE Put(std_, key, standardize_order(value)),
                         n + 1)
    IN D(loop(<< <<CKey, L(<<>>)>> >>, 1))

\* The argument after standardize_order returned.  Line 421 stores the
\* argument's own list under '__components__', so line 419 appends the values
\* of the integer keys that follow it to the argument's list as well.
RECURSIVE AfterStandardize(_)
AfterStandardize(order) ==
    IF ~IsDict(order) THEN order
    ELSE LET items == order.dict
             RECURSIVE loop(_, _, _)
             loop(arg, shared, n) ==
                 IF n > Len(items) THEN arg
                 ELSE LET key == items[n][1]
                          value == items[n][2]
                      IN IF IsInt(key)
                         THEN loop(IF shared
                                   THEN Put(arg, CKey, L(Append(Get(arg, CKey).list, value)))
                                   ELSE arg,
                                   shared, n + 1)
                         ELSE IF key = CKey THEN loop(arg, TRUE, n + 1)
                         ELSE loop(Put(arg, key, AfterStandardize(value)), shared, n + 1)
         IN D(loop(items, FALSE, 1))

\* the component names Factory.order rejects: 'invalid component [..]'
InvalidComponents(f, order) ==
    {i \in 1..Len(Get(order.dict, CKey).list) :
        ~has_component(f, Get(order.dict, CKey).list[i])}

\* the ids argument of build: None, a scalar, or a list
Scalar(v) == [scalar |-> v]
IsScalar(v) == "scalar" \in DOMAIN v

\* Python truthiness of an ids argument, and of a list or dict
Falsy(v) ==
    \/ IsNone(v)
    \/ IsList(v) /\ Len(v.list) = 0
    \/ IsDict(v) /\ Len(v.dict) = 0
    \/ IsScalar(v) /\ v.scalar = 0

bind_reducer(bnds, item) ==
    LET index == Len(bnds.dict)
    IN D(Put(bnds.dict, "id" \o ToString(index), item))

RECURSIVE reduce_binds(_, _)
reduce_binds(acc, items) ==
    IF Len(items) = 0 THEN acc
    ELSE reduce_binds(bind_reducer(acc, Head(items)), Tail(items))

binds(ids_) ==
    IF IsNone(ids_) THEN L(<<>>)
    ELSE reduce_binds(D(<<>>), IF IsList(ids_) THEN ids_.list ELSE <<ids_.scalar>>)

BindCount(bnds) == IF IsDict(bnds) THEN Len(bnds.dict) ELSE Len(bnds.list)

----------------------------------------------------------------------------
(* Join.compile *)

Reference(join) == IF join.alias # "" THEN join.alias ELSE join.table

\* str.format of an on template raises KeyError on a placeholder _map lacks
FormatRaises(on, _map) ==
    \E i \in 1..Len(on) : "ph" \in DOMAIN on[i] /\ ~Has(_map, on[i].ph)

Format(on, _map) ==
    JoinStr("", [i \in 1..Len(on) |->
        IF "ph" \in DOMAIN on[i] THEN Get(_map, on[i].ph) ELSE on[i].lit])

\* the parts of the clause Join.compile emits: the alias it prints is the
\* declared one, whatever counter_map says
JoinParts(join, counter_map) ==
    LET reference == Reference(join)
        collides == Has(counter_map, reference) /\ Get(counter_map, reference) > 1
        alias_ == IF collides
                  THEN reference \o ToString(Get(counter_map, reference))
                  ELSE join.alias
        replace == IF collides THEN alias_ ELSE reference
        _map == << <<reference \o ".", replace \o ".">> >>
    IN [table |-> join.table,
        alias |-> join.alias,
        on |-> Format(join.on, _map)]

Join_compile(join, counter_map) ==
    IF join.shoehorn # "" THEN join.shoehorn
    ELSE LET p == JoinParts(join, counter_map)
         IN "JOIN " \o p.table \o (IF p.alias # "" THEN " " \o p.alias ELSE "")
                \o " ON " \o p.on

Join_raises(join, counter_map) ==
    /\ join.shoehorn = ""
    /\ FormatRaises(join.on, << <<Reference(join) \o ".", Reference(join) \o ".">> >>)

\* Factory._compile_join calls compile() with no argument: counter_map is {}
DefaultCounterMap == <<>>

----------------------------------------------------------------------------
(* Factory.query and its clauses.  A Factory is the registry's object or a *)
(* copy held by a level of the stack; its parent link names the level of   *)
(* the parent Factory.                                                     *)

Self(stk, k) == IF stk[k].shared THEN registry[stk[k].name] ELSE stk[k].fac

HasParent(stk, k) == ~IsNone(Self(stk, k).parent)
ParentLevel(stk, k) == Self(stk, k).parent.factory
ParentInventory(stk, k) == Self(stk, k).parent.inventory

_column_query(f, alias_) ==
    IF primary_key(f) = ""
    THEN "ROWIDTOCHAR(" \o prefix(f) \o ".ROWID) AS "
            \o (IF alias_ = "" THEN "None" ELSE alias_)
    ELSE prefix(f) \o "." \o primary_key(f)
            \o (IF alias_ # "" THEN " AS " \o alias_ ELSE "")

format_column(c, pfx) == pfx \o "." \o c.column \o " AS " \o c.name

\* _get_order_components raises KeyError on a name the component map lacks
GetComponentsRaises(f, names) ==
    \E i \in 1..Len(names) : ~has_component(f, names[i])

_get_order_components(f, names) ==
    [i \in 1..Len(names) |-> component(f, names[i])]

\* components is None (id-only mode) or the list of requested names
Truthy(components) == IsList(components) /\ Len(components.list) > 0

SelectsPid(stk, k, components) == Truthy(components) /\ HasParent(stk, k)

_compile_select(stk, k, components) ==
    LET f == stk[k].name
        first == IF ~IsNone(components)
                 THEN <<_column_query(f, "\"__id__\"")>>
                 ELSE <<"DISTINCT " \o _column_query(f, "")>>
        pid == IF SelectsPid(stk, k, components)
               THEN <<_column_query(stk[ParentLevel(stk, k)].name, "\"__pid__\"")>>
               ELSE <<>>
        cols == IF Truthy(components)
                THEN LET cs == _get_order_components(f, components.list)
                     IN [i \in 1..Len(cs) |-> format_column(cs[i], prefix(f))]
                ELSE <<>>
    IN JoinStr("\n,    ", first \o pid \o cols)

_compile_table(f) ==
    table(f) \o (IF alias(f) # "" THEN " " \o alias(f) ELSE "")

_compile_join(stk, k) ==
    Join_compile(ParentInventory(stk, k).join, DefaultCounterMap)

BindPlaceholders(n) ==
    JoinStr(",", [i \in 1..n |-> "%(id" \o ToString(i - 1) \o ")s"])

RECURSIVE query(_, _, _, _, _)
RECURSIVE _compile_where(_, _, _, _)
\* a WHERE clause that tests every level's own identifier against the binds
_compile_where_direct(stk, k, bnds, depth) ==
    IF Falsy(bnds) THEN "1=1"
    ELSE LET f == stk[k].name
         IN prefix(f) \o "." \o (IF primary_key(f) # "" THEN primary_key(f) ELSE "ROWID")
                \o " IN (" \o BindPlaceholders(BindCount(bnds)) \o ")"

_compile_where(stk, k, bnds, depth) ==
    IF Falsy(bnds) THEN "1=1"
    ELSE IF ~HasParent(stk, k)
    THEN LET f == stk[k].name
         IN prefix(f) \o "." \o (IF primary_key(f) # "" THEN primary_key(f) ELSE "ROWID")
                \o " IN (" \o BindPlaceholders(BindCount(bnds)) \o ")"
    ELSE LET pk == ParentLevel(stk, k)
             pf == stk[pk].name
         IN table(pf) \o "." \o (IF primary_key(pf) # "" THEN primary_key(pf) ELSE "ROWID")
                \o " IN (\n" \o query(stk, pk, None, bnds, depth + 1)
                \o "\n" \o Repeat("   ", depth) \o ")"

query(stk, k, components, bnds, depth) ==
    LET lines == <<"SELECT " \o _compile_select(stk, k, components),
                   "FROM " \o _compile_table(stk[k].name)>>
                 \o (IF HasParent(stk, k) THEN <<_compile_join(stk, k)>> ELSE <<>>)
                 \o <<"WHERE " \o _compile_where(stk, k, bnds, depth)>>
        tabs == Repeat("    ", depth)
    IN tabs \o JoinStr("\n" \o tabs, lines)

\* query raises before anything is executed
RECURSIVE QueryRaises(_, _, _, _)
QueryRaises(stk, k, components, bnds) ==
    \/ Truthy(components) /\ GetComponentsRaises(stk[k].name, components.list)
    \/ HasParent(stk, k) /\ Join_raises(ParentInventory(stk, k).join, DefaultCounterMap)
    \/ /\ ~Falsy(bnds)
       /\ HasParent(stk, k)
       /\ QueryRaises(stk, ParentLevel(stk, k), None, bnds)

----------------------------------------------------------------------------
(* The state after the metadata tree is built: one processor registered on *)
(* the bicycle Factory and one on the wheel Factory (process('front', f)    *)
(* reaches the shared wheel Factory), no build made yet.                    *)

Processor(closure) == [closure |-> closure, models |-> <<>>]

InitialProcessors(f) ==
    CASE f = "bicycle" -> <<Processor("inspect_bicycle")>>
      [] f = "wheel" -> <<Processor("inspect_wheel")>>
      [] f = "spoke" -> <<>>

ModelRefs(f) ==
    CASE f = "bicycle" -> {Class("Bicycle"), Deferred("models.Bicycle")}
      [] f = "wheel" -> {Class("Wheel")}
      [] f = "spoke" -> {Deferred("models.Spoke")}

NewFactory(f, m) ==
    [name |-> f, model |-> m, parent |-> None, order |-> None,
     processors |-> InitialProcessors(f)]

NoNorm == [x |-> None, y |-> None, z |-> None]

InitBuildState ==
    /\ model_map = None
    /\ heap = <<>>
    /\ stack = <<>>
    /\ mgr = [log |-> <<>>, served |-> 0]
    /\ state = "idle"
    /\ ids = None
    /\ result = None
    /\ callbacks = <<>>
    /\ std_order = None
    /\ nbuilds = 0
    /\ outer = None

Init ==
    /\ registry \in {r \in [FactoryNames -> UNION {{NewFactory(f, m) : m \in ModelRefs(f)} : f \in FactoryNames}] :
                        \A f \in FactoryNames : r[f].name = f}
    /\ InitBuildState
    /\ norm = NoNorm

----------------------------------------------------------------------------
(* The inputs of build *)

\* order shorthands: lists of component names, and mappings of integer keys
\* and relationship keys
OrderInputs ==
    { L(<<"seat", "tire">>),
      L(<<>>),
      L(<<"pedal">>),
      D(<< <<IntKey(0), "tire">>, <<StrKey("front"), L(<<"size">>)>> >>),
      D(<< <<IntKey(0), "tire">>,
           <<StrKey("front"), D(<< <<IntKey(0), "size">>,
                                   <<StrKey("spokes"), L(<<"gauge">>)>> >>)>>,
           <<StrKey("rear"), L(<<"size">>)>> >>),
      D(<< <<IntKey(0), "tire">>, <<StrKey("pedals"), L(<<"size">>)>> >>),
      D(<< <<IntKey(0), "tire">>, <<StrKey("front"), L(<<"spin">>)>> >>),
      D(<< <<IntKey(0), "tire">>, <<StrKey("front"), L(<<>>)>> >>) }

IdInputs ==
    { None, Scalar(0), Scalar(1), L(<<>>), L(<<1, 0>>) }

\* The rows a fetch can return for a query: each carries __id__, __pid__ if
\* the query selects it, and a cell for every selected component.  The code
\* never inspects a cell, it only hands it to a carrier, so a cell is the
\* symbolic value "column col of row number row of the query of level node".
Cell(node, row, col) == [node |-> node, row |-> row, col |-> col]

RowSet(haspid, names, node, n) ==
    LET cols == {names[i] : i \in 1..Len(names)}
        vals == [c \in cols |-> Cell(node, n, c)]
    IN IF haspid
       THEN {[id |-> i, pid |-> p, vals |-> vals] : i \in RowIds, p \in RowIds}
       ELSE {[id |-> i, vals |-> vals] : i \in RowIds}

Min(a, b) == IF a < b THEN a ELSE b

DataSets(haspid, names, node) ==
    UNION {{d \in [1..n -> UNION {RowSet(haspid, names, node, i) : i \in 1..n}] :
               \A i \in 1..n : d[i] \in RowSet(haspid, names, node, i)} :
              n \in 1..Min(MaxRows, MaxTotalRows - mgr.served)}

----------------------------------------------------------------------------
(* Factory.build, up to the call of _build *)

RootFrame(order) ==
    [name |-> RootFactory, shared |-> TRUE, fac |-> None, order |-> order,
     pc |-> "start", next |-> 1, data |-> <<>>, payloads |-> <<>>, node |-> <<>>]

CanBuild == state = "idle" /\ nbuilds < MaxBuilds

StartBuild(order, ids_) ==
    /\ registry' = [registry EXCEPT ![RootFactory].order = standardize_order(order)]
    /\ std_order' = standardize_order(order)
    /\ ids' = ids_
    /\ nbuilds' = nbuilds + 1
    /\ UNCHANGED <<heap, callbacks, mgr, norm, outer>>

\* self.order(order) raises: 'invalid component [..]'
BuildInvalidOrder(order, ids_) ==
    /\ CanBuild
    /\ InvalidComponents(RootFactory, standardize_order(order)) # {}
    /\ StartBuild(order, ids_)
    /\ state' = "raised"
    /\ result' = [exc |-> "invalid component", at |-> "order"]
    /\ UNCHANGED <<model_map, stack>>

Build(order, ids_) ==
    /\ CanBuild
    /\ InvalidComponents(RootFactory, standardize_order(order)) = {}
    /\ StartBuild(order, ids_)
    /\ model_map' = D(<<>>)
    /\ stack' = <<RootFrame(standardize_order(order))>>
    /\ state' = "building"
    /\ result' = None

----------------------------------------------------------------------------
(* Factory._build: one level, from its query to the rows loop *)

K == Len(stack)
Top == stack[K]
TopFactory == Self(stack, K)

\* a model instance: the constructor argument and the setter calls it received
NewModel(key, id, node) == [key |-> key, id |-> id, calls |-> <<>>, node |-> node]
Ref(n) == [b |-> nbuilds, n |-> n]
Call(carrier, arg) == [carrier |-> carrier, arg |-> arg]

\* lines 264-267: the requested components' carriers, in requested order
ApplySetters(model, comps, row) ==
    [model EXCEPT !.calls = @ \o
        [i \in 1..Len(comps) |-> Call(comps[i].carrier, [val |-> row.vals[comps[i].name]])]]

\* Processor.attach on every processor of the level
AttachAll(procs, ref) ==
    [i \in 1..Len(procs) |-> [procs[i] EXCEPT !.models = Append(@, ref)]]

\* lines 272-277
Bucket(payloads, p_id, ref) ==
    Put(payloads, p_id,
        Append(IF Has(payloads, p_id) THEN Get(payloads, p_id) ELSE <<>>, ref))

\* a rows loop without lines 258-259: every row constructs a model
RowStepAlwaysConstructs(acc, row, ctx) ==
    LET ref == Ref(Len(acc.heap) + 1)
        heap1 == Append(acc.heap, NewModel(ctx.key, row.id, ctx.node))
        heap2 == [heap1 EXCEPT ![ref.n] = ApplySetters(@, ctx.components, row)]
        nopid == ctx.hasparent /\ "pid" \notin DOMAIN row
    IN [heap |-> heap2,
        map |-> Put(acc.map, row.id, ref),
        procs |-> AttachAll(acc.procs, ref),
        payloads |-> IF ctx.hasparent /\ ~nopid
                     THEN Bucket(acc.payloads, row.pid, ref)
                     ELSE acc.payloads,
        err |-> IF nopid THEN "KeyError: '__pid__'" ELSE ""]

\* lines 257-277: one row; acc.err is the exception the row raised
RowStep(acc, row, ctx) ==
    LET known == Has(acc.map, row.id)
        ref == IF known THEN Get(acc.map, row.id) ELSE Ref(Len(acc.heap) + 1)
        heap1 == IF known THEN acc.heap
                 ELSE Append(acc.heap, NewModel(ctx.key, row.id, ctx.node))
        map1 == IF known THEN acc.map ELSE Put(acc.map, row.id, ref)
        heap2 == [heap1 EXCEPT ![ref.n] = ApplySetters(@, ctx.components, row)]
        nopid == ctx.hasparent /\ "pid" \notin DOMAIN row
    IN [heap |-> heap2,
        map |-> map1,
        procs |-> AttachAll(acc.procs, ref),
        payloads |-> IF ctx.hasparent /\ ~nopid
                     THEN Bucket(acc.payloads, row.pid, ref)
                     ELSE acc.payloads,
        err |-> IF nopid THEN "KeyError: '__pid__'" ELSE ""]

\* lines 256-277: the rows loop, left at the first exception
RECURSIVE RowLoop(_, _, _)
RowLoop(acc, data, ctx) ==
    IF Len(data) = 0 \/ acc.err # "" THEN acc
    ELSE RowLoop(RowStep(acc, Head(data), ctx), Tail(data), ctx)

LevelComponents == Get(Top.order.dict, CKey)
LevelKey == model_key(TopFactory.model)
LevelBinds == binds(ids)

\* lines 243-244
MapWithLevelKey ==
    IF Has(model_map.dict, LevelKey) THEN model_map
    ELSE D(Put(model_map.dict, LevelKey, <<>>))

LevelLoop(data) ==
    RowLoop([heap |-> heap, map |-> Get(MapWithLevelKey.dict, LevelKey),
             procs |-> TopFactory.processors, payloads |-> <<>>, err |-> ""],
            data,
            [key |-> LevelKey, node |-> Top.node, hasparent |-> HasParent(stack, K),
             components |-> _get_order_components(Top.name, LevelComponents.list)])

\* mgr.execute(query, binds), and what mgr.data() then returned
Executed(nrows) ==
    [node |-> Top.node,
     query |-> query(stack, K, LevelComponents, LevelBinds, 0),
     binds |-> LevelBinds,
     where |-> _compile_where(stack, K, LevelBinds, 0),
     join |-> IF HasParent(stack, K)
              THEN JoinParts(ParentInventory(stack, K).join, DefaultCounterMap)
              ELSE None,
     nrows |-> nrows]

Execute(nrows) ==
    mgr' = [log |-> Append(mgr.log, Executed(nrows)), served |-> mgr.served + nrows]

\* an exception raised in _build leaves every _build call and build itself
Raise(exc) ==
    /\ state' = "raised"
    /\ result' = [exc |-> exc, at |-> "_build"]
    /\ stack' = <<>>

\* _build returns to its caller: the parent level, or build
PopLevel ==
    /\ stack' = SubSeq(stack, 1, K - 1)
    /\ state' = IF K = 1 THEN "select" ELSE "building"

RECURSIVE DelAt(_, _)
DelAt(order, path) ==
    IF Len(path) = 0 THEN D(Del(order.dict, CKey))
    ELSE D(Put(order.dict, StrKey(Head(path)),
               DelAt(Get(order.dict, StrKey(Head(path))), Tail(path))))

AtStart == state = "building" /\ K > 0 /\ Top.pc = "start"

\* line 246 raises: the level's query cannot be compiled
LevelQueryRaises ==
    /\ AtStart
    /\ QueryRaises(stack, K, LevelComponents, LevelBinds)
    /\ model_map' = MapWithLevelKey
    /\ Raise("KeyError: component")
    /\ UNCHANGED <<registry, heap, mgr, ids, callbacks, std_order, nbuilds, norm, outer>>

\* a _build without lines 250-251: an empty fetch goes on to the relationships
LevelNoRowsGoesOn ==
    /\ AtStart
    /\ ~QueryRaises(stack, K, LevelComponents, LevelBinds)
    /\ model_map' = MapWithLevelKey
    /\ Execute(0)
    /\ stack' = [stack EXCEPT ![K] =
                    [@ EXCEPT !.pc = "children", !.order = D(Del(@.dict, CKey))]]
    /\ UNCHANGED <<registry, heap, state, ids, result, callbacks, std_order, nbuilds, norm, outer>>

\* lines 246-251: the fetch returns no row.  (Line 231 never returns: a
\* normalized order always holds '__components__'.)
LevelNoRows ==
    /\ AtStart
    /\ ~QueryRaises(stack, K, LevelComponents, LevelBinds)
    /\ model_map' = MapWithLevelKey
    /\ Execute(0)
    /\ PopLevel
    /\ UNCHANGED <<registry, heap, ids, result, callbacks, std_order, nbuilds, norm, outer>>

\* lines 246-279: the fetch returns rows and the rows loop completes
LevelRows(data) ==
    LET acc == LevelLoop(data)
    IN /\ AtStart
       /\ ~QueryRaises(stack, K, LevelComponents, LevelBinds)
       /\ acc.err = ""
       /\ model_map' = D(Put(MapWithLevelKey.dict, LevelKey, acc.map))
       /\ heap' = acc.heap
       /\ Execute(Len(data))
       /\ stack' = [stack EXCEPT ![K] =
                       [@ EXCEPT !.pc = "children",
                                 !.data = data,
                                 !.payloads = acc.payloads,
                                 !.order = D(Del(@.dict, CKey)),
                                 !.fac = IF Top.shared THEN @
                                         ELSE [@ EXCEPT !.processors = acc.procs]]]
       /\ registry' = [registry EXCEPT
                          ![RootFactory].order = DelAt(@, Top.node),
                          ![Top.name].processors =
                              IF Top.shared THEN acc.procs ELSE @]
       /\ UNCHANGED <<state, ids, result, callbacks, std_order, nbuilds, norm, outer>>

\* lines 256-277 raise: a row lacks the column the loop reads
LevelRowsRaise(data) ==
    LET acc == LevelLoop(data)
    IN /\ AtStart
       /\ ~QueryRaises(stack, K, LevelComponents, LevelBinds)
       /\ acc.err # ""
       /\ model_map' = D(Put(MapWithLevelKey.dict, LevelKey, acc.map))
       /\ heap' = acc.heap
       /\ Execute(Len(data))
       /\ Raise(acc.err)
       /\ registry' = [registry EXCEPT ![Top.name].processors =
                          IF Top.shared THEN acc.procs ELSE @]
       /\ UNCHANGED <<ids, callbacks, std_order, nbuilds, norm, outer>>


----------------------------------------------------------------------------
(* Factory._build: the relationships of the order, lines 280-287 *)

\* deepcopy of a Factory: the object and every Factory its inventory reaches
RECURSIVE Snapshot(_)
Snapshot(f) ==
    [name |-> f,
     model |-> registry[f].model,
     parent |-> registry[f].parent,
     order |-> registry[f].order,
     processors |-> registry[f].processors,
     sub |-> [key \in DOMAIN inventory_map(f) |-> Snapshot(inventory_map(f)[key].factory)]]

\* inv.factory() of the level's Factory: the registry's object, or the copy's own copy
ChildFactory(key) ==
    IF Top.shared THEN Snapshot(inventory(Top.name, key).factory)
    ELSE Top.fac.sub[key]

deepcopy(fac) == fac

AtChildren == state = "building" /\ K > 0 /\ Top.pc = "children"

NextKey == Top.order.dict[Top.next][1].str
NextComponents == Top.order.dict[Top.next][2]

\* line 282: 'inventory item not defined'
EnterUndefined ==
    /\ AtChildren
    /\ Top.next <= Len(Top.order.dict)
    /\ ~has_inventory_item(Top.name, NextKey)
    /\ Raise("inventory item not defined")
    /\ UNCHANGED <<registry, model_map, heap, mgr, ids, callbacks, std_order, nbuilds, norm, outer>>

\* a _build without the deepcopy of line 285: the parent link is set on the
\* inventory's own Factory and the child level runs on it
EnterChildInPlace ==
    /\ AtChildren
    /\ Top.next <= Len(Top.order.dict)
    /\ has_inventory_item(Top.name, NextKey)
    /\ LET inv == inventory(Top.name, NextKey)
       IN /\ registry' = [registry EXCEPT
                             ![inv.factory].parent = [factory |-> K, inventory |-> inv]]
          /\ stack' = Append([stack EXCEPT ![K].next = @ + 1],
                             [name |-> inv.factory, shared |-> TRUE, fac |-> None,
                              order |-> NextComponents, pc |-> "start", next |-> 1,
                              data |-> <<>>, payloads |-> <<>>,
                              node |-> Append(Top.node, NextKey)])
    /\ UNCHANGED <<model_map, heap, mgr, state, ids, result, callbacks,
                   std_order, nbuilds, norm, outer>>

\* lines 284-287: a copy of the child Factory, linked to this level, is built
EnterChild ==
    /\ AtChildren
    /\ Top.next <= Len(Top.order.dict)
    /\ has_inventory_item(Top.name, NextKey)
    /\ LET inv == inventory(Top.name, NextKey)
           fac == [deepcopy(ChildFactory(NextKey)) EXCEPT
                      !.parent = [factory |-> K, inventory |-> inv]]
       IN stack' = Append([stack EXCEPT ![K].next = @ + 1],
                          [name |-> fac.name, shared |-> FALSE, fac |-> fac,
                           order |-> NextComponents, pc |-> "start", next |-> 1,
                           data |-> <<>>, payloads |-> <<>>,
                           node |-> Append(Top.node, NextKey)])
    /\ UNCHANGED <<registry, model_map, heap, mgr, state, ids, result, callbacks,
                   std_order, nbuilds, norm, outer>>

----------------------------------------------------------------------------
(* Factory._build: the end of a level, lines 289-302 *)

\* Processor.run of every processor of the level: the callbacks invoked
RunAll(procs, node) ==
    Flatten([i \in 1..Len(procs) |->
        [j \in 1..Len(procs[i].models) |->
            [closure |-> procs[i].closure, model |-> procs[i].models[j], node |-> node]]])

\* an attachment that hands a single inventory the last model of the bucket
AttachBucketLast(h, parent_map, inv, bucket) ==
    IF Has(parent_map, bucket[1])
    THEN [h EXCEPT ![Get(parent_map, bucket[1]).n].calls =
             Append(@, Call(inv.carrier,
                            IF inv.single THEN [one |-> bucket[2][Len(bucket[2])]]
                            ELSE [many |-> bucket[2]]))]
    ELSE h

\* lines 298-302 for one bucket of payloads
AttachBucket(h, parent_map, inv, bucket) ==
    IF Has(parent_map, bucket[1])
    THEN [h EXCEPT ![Get(parent_map, bucket[1]).n].calls =
             Append(@, Call(inv.carrier,
                            IF inv.single THEN [one |-> bucket[2][1]]
                            ELSE [many |-> bucket[2]]))]
    ELSE h

RECURSIVE AttachPayloads(_, _, _, _)
AttachPayloads(h, parent_map, inv, payloads) ==
    IF Len(payloads) = 0 THEN h
    ELSE AttachPayloads(AttachBucket(h, parent_map, inv, Head(payloads)),
                        parent_map, inv, Tail(payloads))

ParentMap ==
    Get(model_map.dict, model_key(Self(stack, ParentLevel(stack, K)).model))

LevelFinish ==
    /\ AtChildren
    /\ Top.next > Len(Top.order.dict)
    /\ callbacks' = callbacks \o RunAll(TopFactory.processors, Top.node)
    /\ heap' = IF HasParent(stack, K)
               THEN AttachPayloads(heap, ParentMap, ParentInventory(stack, K), Top.payloads)
               ELSE heap
    /\ PopLevel
    /\ UNCHANGED <<registry, model_map, mgr, ids, result, std_order, nbuilds, norm, outer>>

----------------------------------------------------------------------------
(* Factory.build, after _build returned: lines 211-228 *)

RootModel == registry[RootFactory].model

\* the ids after line 215
ListedIds == IF IsList(ids) THEN ids ELSE L(<<ids.scalar>>)

\* lines 217-220
MatchedModels ==
    LET _map == Get(model_map.dict, model_key(RootModel))
        present == SelectSeq(ListedIds.list, LAMBDA i : Has(_map, i))
    IN L([n \in 1..Len(present) |-> Get(_map, present[n])])

\* line 212: the values view of the dict under the model reference itself
AllValues == [values |-> DictValues(Get(model_map.dict, ModelAsKey(RootModel)))]

\* what build raises after _build, "" if it returns
SelectError ==
    IF Falsy(ids)
    THEN IF ~Has(model_map.dict, ModelAsKey(RootModel)) THEN "KeyError: model"
         ELSE IF IsNone(ids) \/ IsList(ids) THEN ""
         ELSE IF Len(AllValues.values) # 1 THEN "single build failed"
         ELSE "TypeError: 'dict_values' object is not subscriptable"
    ELSE ""

\* what build returns: line 223 (after line 215 every truthy ids is a list)
Selected == IF Falsy(ids) THEN AllValues ELSE MatchedModels

ReturnModels ==
    /\ state = "select"
    /\ SelectError = ""
    /\ state' = "returned"
    /\ result' = [ret |-> Selected]
    /\ UNCHANGED <<registry, model_map, heap, stack, mgr, ids, callbacks, std_order,
                   nbuilds, norm, outer>>

ReturnRaises ==
    /\ state = "select"
    /\ SelectError # ""
    /\ state' = "raised"
    /\ result' = [exc |-> SelectError, at |-> "select"]
    /\ UNCHANGED <<registry, model_map, heap, stack, mgr, ids, callbacks, std_order,
                   nbuilds, norm, outer>>

\* a build called from a callback has returned to the callback
Nested == IF IsNone(outer) THEN FALSE ELSE outer.phase = "nested" /\ state = "returned"

\* The caller takes what build returned or raised.  The models, the queries
\* and the callbacks recorded for that call are the caller's from here on.
Collect ==
    /\ state \in {"returned", "raised"}
    /\ ~Nested
    /\ state' = "idle"
    /\ result' = None
    /\ ids' = None
    /\ std_order' = None
    /\ heap' = <<>>
    /\ callbacks' = <<>>
    /\ mgr' = [mgr EXCEPT !.log = <<>>]
    /\ outer' = None
    /\ UNCHANGED <<registry, model_map, stack, nbuilds, norm>>

----------------------------------------------------------------------------

Next ==
    \/ \E order \in OrderInputs, ids_ \in IdInputs : BuildInvalidOrder(order, ids_)
    \/ \E order \in OrderInputs, ids_ \in IdInputs : Build(order, ids_)
    \/ LevelQueryRaises
    \/ LevelNoRows
    \/ /\ AtStart
       /\ \E data \in DataSets(SelectsPid(stack, K, LevelComponents),
                               LevelComponents.list, Top.node) :
              \/ LevelRows(data)
              \/ LevelRowsRaise(data)
    \/ EnterUndefined
    \/ EnterChild
    \/ LevelFinish
    \/ ReturnModels
    \/ ReturnRaises
    \/ Collect

Spec == Init /\ [][Next]_vars

----------------------------------------------------------------------------
(* A processor callback that calls build on the root Factory.  The root     *)
(* level's processors run at the end of its _build (lines 289-290); the     *)
(* callback, on the first invocation of that run, calls build, which runs   *)
(* to its end inside the callback.  An exception of the inner call leaves   *)
(* the callback and the suspended call with it.                             *)

\* the orders and ids the caller and the callback build with: every name in
\* them is declared, so no query fails to compile and no row lacks a column
ReentrantOrders ==
    { L(<<"seat", "tire">>),
      D(<< <<IntKey(0), "tire">>, <<StrKey("front"), L(<<"size">>)>> >>) }

ReentrantIds == { None, L(<<1, 0>>) }

\* the invocations Processor.run makes over the root's processors as they are
RootRun == RunAll(registry[RootFactory].processors, <<>>)

\* lines 289-290 reach the callback, which calls build (lines 205-210)
Reenter(order, ids_) ==
    /\ IsNone(outer)
    /\ AtChildren
    /\ K = 1
    /\ Top.next > Len(Top.order.dict)
    /\ nbuilds < MaxBuilds
    /\ Len(RootRun) > 0
    /\ outer' = [phase |-> "nested", ids |-> ids, std_order |-> std_order,
                 model_map |-> model_map]
    /\ callbacks' = Append(callbacks, Head(RootRun))
    /\ registry' = [registry EXCEPT ![RootFactory].order = standardize_order(order)]
    /\ std_order' = standardize_order(order)
    /\ ids' = ids_
    /\ nbuilds' = nbuilds + 1
    /\ model_map' = D(<<>>)
    /\ stack' = <<RootFrame(standardize_order(order))>>
    /\ result' = None
    /\ UNCHANGED <<heap, mgr, state, norm>>

\* a callback that keeps the suspended call's model map on the Factory
ReturnToCallbackRestoringMap ==
    /\ Nested
    /\ callbacks' = callbacks \o Tail(RootRun)
    /\ outer' = [outer EXCEPT !.phase = "resumed"]
    /\ model_map' = outer.model_map
    /\ ids' = outer.ids
    /\ std_order' = outer.std_order
    /\ result' = None
    /\ state' = "select"
    /\ UNCHANGED <<registry, heap, stack, mgr, nbuilds, norm>>

\* The inner build returned to the callback.  Processor.run goes on over the
\* queue, the models the inner build attached included, the suspended _build
\* returns, and build goes on at line 211 with its own ids and with the
\* _model_map the inner call left on the Factory.
ReturnToCallback ==
    /\ Nested
    /\ callbacks' = callbacks \o Tail(RootRun)
    /\ outer' = [outer EXCEPT !.phase = "resumed"]
    /\ ids' = outer.ids
    /\ std_order' = outer.std_order
    /\ result' = None
    /\ state' = "select"
    /\ UNCHANGED <<registry, model_map, heap, stack, mgr, nbuilds, norm>>

NextReentrant ==
    \/ \E order \in ReentrantOrders, ids_ \in ReentrantIds : Build(order, ids_)
    \/ LevelNoRows
    \/ /\ AtStart
       /\ \E data \in DataSets(SelectsPid(stack, K, LevelComponents),
                               LevelComponents.list, Top.node) : LevelRows(data)
    \/ EnterChild
    \/ LevelFinish
    \/ ReturnModels
    \/ ReturnRaises
    \/ Collect
    \/ \E order \in ReentrantOrders, ids_ \in ReentrantIds : Reenter(order, ids_)
    \/ ReturnToCallback

SpecReentrant == Init /\ [][NextReentrant]_vars

----------------------------------------------------------------------------
(* Factory.standardize_order on its own: a caller normalizes an order       *)
(* shorthand, then normalizes what it got.                                  *)

\* the largest shorthand: names and mapping entries, counted through the nesting
MaxSize == 4

ComponentNames == {"tire", "seat"}
RelationshipKeys == {"front", "rear"}
IntKeys == {0}

ListsUpTo(n) == UNION {[1..k -> ComponentNames] : k \in 0..n}

\* Order shorthands of at most n names and entries: a positional sequence of
\* component names, or a mapping of integer keys to names, of the reserved
\* key to a list of names and of relationship keys to shorthands.
RECURSIVE Shorthands(_)
RECURSIVE DictsUpTo(_)
EntriesUpTo(s) ==
    {<<IntKey(i), c>> : i \in IntKeys, c \in ComponentNames}
        \cup {<<CKey, L(l)>> : l \in ListsUpTo(s - 1)}
        \cup {<<StrKey(r), v>> : r \in RelationshipKeys, v \in Shorthands(s - 1)}

DictsUpTo(n) ==
    {<<>>} \cup
    UNION {{Append(q[1], q[2]) :
               q \in {p \in DictsUpTo(n - s) \X EntriesUpTo(s) : ~Has(p[1], p[2][1])}} :
           s \in 1..n}

Shorthands(n) == {L(l) : l \in ListsUpTo(n)} \cup {D(d) : d \in DictsUpTo(n)}

InitNorm ==
    /\ registry = [f \in FactoryNames |-> NewFactory(f, CHOOSE m \in ModelRefs(f) : TRUE)]
    /\ InitBuildState
    /\ norm \in {[x |-> x, y |-> None, z |-> None] : x \in Shorthands(MaxSize)}

\* y = Factory.standardize_order(x)
Normalize ==
    /\ IsNone(norm.y)
    /\ norm' = [x |-> AfterStandardize(norm.x),
                y |-> standardize_order(norm.x),
                z |-> None]
    /\ UNCHANGED <<registry, model_map, heap, stack, mgr, state, ids, result,
                   callbacks, std_order, nbuilds, outer>>

\* z = Factory.standardize_order(y)
Renormalize ==
    /\ ~IsNone(norm.y)
    /\ IsNone(norm.z)
    /\ norm' = [x |-> norm.x,
                y |-> AfterStandardize(norm.y),
                z |-> standardize_order(norm.y)]
    /\ UNCHANGED <<registry, model_map, heap, stack, mgr, state, ids, result,
                   callbacks, std_order, nbuilds, outer>>

NextNorm == Normalize \/ Renormalize

SpecNorm == InitNorm /\ [][NextNorm]_vars

----------------------------------------------------------------------------
(* What the claims speak of *)

\* the levels queried in the current build, in the order of their queries
LogNodes == [i \in 1..Len(mgr.log) |-> mgr.log[i].node]

Queried(node) == \E i \in 1..Len(mgr.log) : mgr.log[i].node = node
RowsOf(node) == mgr.log[CHOOSE i \in 1..Len(mgr.log) : mgr.log[i].node = node].nrows

\* the relationship entries of a normalized order
Relationships(order) == Del(order.dict, CKey)

\* the depth-first walk of a normalized order that stops below a level whose
\* query returned no row; a level not queried yet is walked as a leaf
RECURSIVE Visit(_, _)
Visit(node, order) ==
    <<node>> \o
    (IF ~Queried(node) \/ RowsOf(node) = 0 THEN <<>>
     ELSE LET rels == Relationships(order)
          IN Flatten([i \in 1..Len(rels) |->
                         Visit(Append(node, rels[i][1].str), rels[i][2])]))

IsPrefix(s, t) == Len(s) <= Len(t) /\ SubSeq(t, 1, Len(s)) = s

\* _build returned to build
BuildCompleted == state \in {"select", "returned"} \/ (state = "raised" /\ result.at = "select")

\* build ran to its end: it returned, or raised after _build returned
SelectDone == state = "returned" \/ (state = "raised" /\ result.at = "select")

\* the models constructed at the root level of the current build
RootLevelModels == {n \in 1..Len(heap) : heap[n].node = <<>>}

\* the elements of a returned collection
Items(ret) == IF "values" \in DOMAIN ret THEN ret.values
              ELSE IF "list" \in DOMAIN ret THEN ret.list
              ELSE <<ret.model>>

\* every name of a normalized order is declared by the Factory of its level
RECURSIVE ValidOrder(_, _)
ValidOrder(f, order) ==
    /\ InvalidComponents(f, order) = {}
    /\ \A i \in 1..Len(Relationships(order)) :
          LET key == Relationships(order)[i][1].str
          IN /\ has_inventory_item(f, key)
             /\ ValidOrder(inventory(f, key).factory, Relationships(order)[i][2])

----------------------------------------------------------------------------
(* C1: during one build the queries executed are, at every moment, a      *)
(* prefix of the depth-first walk of the normalized order that stops below *)
(* every level whose query returned no row (so no level is queried twice,  *)
(* a level is queried after its parent and before its next sibling, and    *)
(* nothing is queried beneath a level without rows), and when _build       *)
(* returns they are that whole walk: one query for the root and one for    *)
(* each relationship node whose ancestors all returned rows, however many  *)
(* rows each returned.                                                     *)
C1_OneQueryPerLevelDepthFirst ==
    ~IsNone(std_order) =>
        /\ IsPrefix(LogNodes, Visit(<<>>, std_order))
        /\ BuildCompleted => LogNodes = Visit(<<>>, std_order)

\* a build that queried the root, front, the spokes of front, then rear
C1_Witness ==
    /\ state = "select"
    /\ LogNodes = << <<>>, <<"front">>, <<"front", "spokes">>, <<"rear">> >>

(* C2: build with a list of ids returns the root-level models of this     *)
(* build whose id occurs in ids, in the order of ids, and raises nothing.  *)
C2_ListBuildReturnsMatches ==
    (SelectDone /\ IsList(ids)) =>
        /\ state = "returned"
        /\ LET present == SelectSeq(ids.list,
                              LAMBDA i : \E n \in RootLevelModels : heap[n].id = i)
           IN Items(result.ret) =
                [k \in 1..Len(present) |->
                    Ref(CHOOSE n \in RootLevelModels : heap[n].id = present[k])]

(* C3: build with ids = None returns all the root-level models of this    *)
(* build, whether the root model reference is a class or deferred.         *)
C3_NoneBuildReturnsAll ==
    (SelectDone /\ IsNone(ids)) =>
        /\ state = "returned"
        /\ {Items(result.ret)[k] : k \in 1..Len(Items(result.ret))}
              = {Ref(n) : n \in RootLevelModels}

(* C4: build with a scalar id returns the one root-level model with that  *)
(* id, itself, and raises the cardinality error when there is none.        *)
C4_ScalarBuildCardinality ==
    (SelectDone /\ IsScalar(ids)) =>
        LET matches == {n \in RootLevelModels : heap[n].id = ids.scalar}
        IN IF Cardinality(matches) = 1
           THEN /\ state = "returned"
                /\ result.ret = [model |-> Ref(CHOOSE n \in matches : TRUE)]
           ELSE /\ state = "raised"
                /\ result.exc = "single build failed"

(* C5: a build whose order names an undeclared component or relationship, *)
(* at any level, never returns.                                            *)
C5_InvalidOrderNeverReturns ==
    state = "returned" => ValidOrder(RootFactory, std_order)

----------------------------------------------------------------------------
(* Processors and joins, as the claims speak of them *)

\* the Factory of a level of the order tree
RECURSIVE FactoryAt(_, _)
FactoryAt(f, node) ==
    IF Len(node) = 0 THEN f
    ELSE FactoryAt(inventory(f, Head(node)).factory, Tail(node))

\* the inventory item a non-root level was entered through
InventoryAt(node) ==
    inventory(FactoryAt(RootFactory, SubSeq(node, 1, Len(node) - 1)), node[Len(node)])

\* the invocations of one closure at one level on one model
Invocations(closure, node, ref) ==
    {i \in 1..Len(callbacks) :
        /\ callbacks[i].closure = closure
        /\ callbacks[i].node = node
        /\ callbacks[i].model = ref}

\* the levels of the current build whose processors have run
FinishedNodes ==
    {mgr.log[i].node : i \in {j \in 1..Len(mgr.log) :
        /\ mgr.log[j].nrows > 0
        /\ \A k \in 1..Len(stack) : stack[k].node # mgr.log[j].node}}

(* C6: in every build each processor of a level invokes its callback      *)
(* exactly once on each model constructed at that level in that build, and *)
(* on no other model.                                                      *)
C6_CallbackOncePerModel ==
    BuildCompleted =>
        /\ \A i \in 1..Len(callbacks) :
              /\ callbacks[i].model.b = nbuilds
              /\ callbacks[i].model.n \in 1..Len(heap)
              /\ heap[callbacks[i].model.n].node = callbacks[i].node
              /\ Cardinality(Invocations(callbacks[i].closure, callbacks[i].node,
                                         callbacks[i].model)) = 1
        /\ \A n \in 1..Len(heap) :
              LET procs == InitialProcessors(FactoryAt(RootFactory, heap[n].node))
              IN heap[n].node \in FinishedNodes =>
                    \A p \in 1..Len(procs) :
                        Invocations(procs[p].closure, heap[n].node, Ref(n)) # {}

\* which occurrence of its join reference the join of the i-th query is,
\* among the joins compiled in the build so far
Occurrence(i) ==
    Cardinality({j \in 1..i :
        /\ ~IsNone(mgr.log[j].join)
        /\ Reference(InventoryAt(mgr.log[j].node).join)
              = Reference(InventoryAt(mgr.log[i].node).join)})

\* the JOIN clause of the n-th occurrence of a join's reference
DisambiguatedJoin(join, n) ==
    LET ref == Reference(join)
        name == IF n = 1 THEN ref ELSE ref \o ToString(n)
    IN [table |-> join.table,
        alias |-> IF n = 1 THEN join.alias ELSE name,
        on |-> Format(join.on, << <<ref \o ".", name \o ".">> >>)]

(* C7: of the JOIN clauses a build compiles, the first on a table keeps    *)
(* its declared name and the n-th on the same table carries the table name *)
(* with n appended, each ON clause naming the alias of its own occurrence. *)
C7_RepeatedJoinsDisambiguated ==
    \A i \in 1..Len(mgr.log) :
        ~IsNone(mgr.log[i].join) =>
            mgr.log[i].join =
                DisambiguatedJoin(InventoryAt(mgr.log[i].node).join, Occurrence(i))

----------------------------------------------------------------------------
(* The attachment of children and the rows loop, as the claims speak of them *)

\* the step that ends a non-root level whose query returned rows
FinishesChildLevel ==
    /\ AtChildren
    /\ Top.next > Len(Top.order.dict)
    /\ HasParent(stack, K)
    /\ Len(stack') = K - 1

\* the models of the level's rows that carry parent id p, in row order
ChildrenOf(p) ==
    LET rows == SelectSeq(Top.data, LAMBDA r : r.pid = p)
    IN [i \in 1..Len(rows) |-> Get(Get(model_map.dict, LevelKey), rows[i].id)]

\* the carrier calls the end of the level owes to model n of the heap
ExpectedAttachment(n) ==
    LET inv == ParentInventory(stack, K)
        kids == ChildrenOf(heap[n].id)
    IN IF /\ Has(ParentMap, heap[n].id)
          /\ Get(ParentMap, heap[n].id) = Ref(n)
          /\ Len(kids) > 0
       THEN <<Call(inv.carrier, IF inv.single THEN [one |-> kids[1]]
                                ELSE [many |-> kids])>>
       ELSE <<>>

(* C8: the end of a non-root level that returned rows invokes the parent   *)
(* inventory's carrier once on every model of the parent's model map whose *)
(* id is the parent id of some row, with the model of the first such row   *)
(* when the inventory is single and with the models of all such rows, in   *)
(* row order, when it is not; it invokes nothing else.                     *)
C8_AttachFirstOrAllInRowOrder ==
    [][FinishesChildLevel =>
          /\ Len(heap') = Len(heap)
          /\ \A n \in 1..Len(heap) :
                heap'[n] = [heap[n] EXCEPT !.calls = @ \o ExpectedAttachment(n)]]_vars

\* a bicycle that was handed two different wheels, in row order, as its rear
C8_Witness ==
    \E n \in 1..Len(heap) : \E c \in 1..Len(heap[n].calls) :
        /\ heap[n].calls[c].carrier = "set_rear"
        /\ "many" \in DOMAIN heap[n].calls[c].arg
        /\ Len(heap[n].calls[c].arg.many) = 2
        /\ heap[n].calls[c].arg.many[1].n < heap[n].calls[c].arg.many[2].n

\* the step in which a level's rows loop runs to its end
RowsLoopCompletes ==
    /\ AtStart
    /\ Len(stack') = K
    /\ stack'[K].pc = "children"

\* the instances of the level's model key constructed with id i
Instances(h, i) == {n \in 1..Len(h) : h[n].key = LevelKey /\ h[n].id = i}

\* the setter calls the rows carrying id i make, row after row
ExpectedSetters(data, i) ==
    LET rows == SelectSeq(data, LAMBDA r : r.id = i)
        comps == LevelComponents.list
    IN Flatten([r \in 1..Len(rows) |->
                  [c \in 1..Len(comps) |->
                      Call(component(Top.name, comps[c]).carrier,
                           [val |-> rows[r].vals[comps[c]]])]])

\* no two instances of one model key were constructed with the same id
UniqueInstances(h) ==
    \A n, m \in 1..Len(h) : (h[n].key = h[m].key /\ h[n].id = h[m].id) => n = m

(* C9: within a build no two instances of one model key are constructed    *)
(* with the same id; a level's rows loop constructs one instance for each  *)
(* id it did not know, and the instance of an id receives, row after row   *)
(* carrying that id, the setters of the requested components in requested  *)
(* order, so it ends with the values of the last such row.                 *)
C9_OneInstancePerIdLastRowWins ==
    [][/\ UniqueInstances(heap')
       /\ RowsLoopCompletes =>
             LET data == stack'[K].data
                 seen == {data[r].id : r \in 1..Len(data)}
             IN /\ Len(heap') = Len(heap)
                       + Cardinality({i \in seen : Instances(heap, i) = {}})
                /\ \A n \in 1..Len(heap) :
                      \/ heap[n].key = LevelKey /\ heap[n].id \in seen
                      \/ heap'[n] = heap[n]
                /\ \A i \in seen :
                      /\ Cardinality(Instances(heap', i)) = 1
                      /\ LET n == CHOOSE k \in Instances(heap', i) : TRUE
                         IN heap'[n].calls =
                               (IF n <= Len(heap) THEN heap[n].calls ELSE <<>>)
                                   \o ExpectedSetters(data, i)]_vars

\* an instance that received the cells of the first and then of the second
\* row of one fetch
C9_Witness ==
    \E n \in 1..Len(heap) :
        /\ Len(heap[n].calls) >= 2
        /\ heap[n].calls[1].carrier = heap[n].calls[2].carrier
        /\ "val" \in DOMAIN heap[n].calls[1].arg
        /\ "val" \in DOMAIN heap[n].calls[2].arg
        /\ heap[n].calls[1].arg.val.node = heap[n].calls[2].arg.val.node
        /\ heap[n].calls[1].arg.val.row = 1
        /\ heap[n].calls[2].arg.val.row = 2

----------------------------------------------------------------------------
(* C10: normalizing a normalized order gives it back: for every order      *)
(* shorthand x, standardize_order(standardize_order(x)) equals             *)
(* standardize_order(x).                                                   *)
C10_NormalizationIdempotent ==
    ~IsNone(norm.z) => norm.z = norm.y

\* a twice-normalized mapping that mixed an integer key, the reserved key
\* and a relationship key holding a mapping of its own
C10_Witness ==
    /\ ~IsNone(norm.z)
    /\ IsDict(norm.x)
    /\ Has(norm.x.dict, CKey)
    /\ \E i \in IntKeys : Has(norm.x.dict, IntKey(i))
    /\ \E r \in RelationshipKeys :
          /\ Has(norm.x.dict, StrKey(r))
          /\ IsDict(Get(norm.x.dict, StrKey(r)))
          /\ Len(Get(norm.x.dict, StrKey(r)).dict) > 0

----------------------------------------------------------------------------
(* C11: a level that has a parent link compiles a query that selects the   *)
(* parent's identifier as __pid__, whatever the list of requested          *)
(* components, the empty list included, so that no row read at a non-root  *)
(* level lacks the __pid__ the rows loop buckets its model under.          *)
C11_ChildQuerySelectsPid ==
    /\ (AtStart /\ HasParent(stack, K)) => SelectsPid(stack, K, LevelComponents)
    /\ state = "raised" => result.exc # "KeyError: '__pid__'"

----------------------------------------------------------------------------
(* The WHERE clause, as the claim speaks of it: built from the root's test *)
(* outwards, one subquery for every level between the root and the level   *)
(* the query is compiled for.                                              *)

\* the root's membership test over n binds
RootTest(n) ==
    prefix(RootFactory) \o "." \o primary_key(RootFactory) \o " IN ("
        \o JoinStr(",", [i \in 1..n |-> "%(id" \o ToString(i - 1) \o ")s"]) \o ")"

\* the id-only query of the level at path, printed at depth, with WHERE clause w
IdOnlyQuery(path, depth, w) ==
    LET f == FactoryAt(RootFactory, path)
        tabs == Repeat("    ", depth)
    IN tabs \o JoinStr("\n" \o tabs,
           <<"SELECT DISTINCT " \o prefix(f) \o "." \o primary_key(f),
             "FROM " \o table(f) \o (IF alias(f) # "" THEN " " \o alias(f) ELSE "")>>
           \o (IF Len(path) > 0
               THEN <<Join_compile(InventoryAt(path).join, DefaultCounterMap)>>
               ELSE <<>>)
           \o <<"WHERE " \o w>>)

\* w is the WHERE clause of the ancestor j levels below the root; wrap it
\* until the level at node is reached
RECURSIVE NestFrom(_, _, _)
NestFrom(node, j, w) ==
    IF j = Len(node) THEN w
    ELSE LET path == SubSeq(node, 1, j)
             f == FactoryAt(RootFactory, path)
             depth == Len(node) - j
         IN NestFrom(node, j + 1,
                table(f) \o "." \o primary_key(f) \o " IN (\n"
                    \o IdOnlyQuery(path, depth, w)
                    \o "\n" \o Repeat("   ", depth - 1) \o ")")

(* C12: the WHERE clause of every query a build executes is 1=1 when there *)
(* are no binds; otherwise it is, for the root, the membership test of     *)
(* prefix.primaryKey against %(id0)s .. %(id(n-1))s, and for a level k     *)
(* levels below the root that test wrapped k times, each time as           *)
(* parentTable.primaryKey IN (the parent's id-only query one level deeper). *)
C12_WhereNestsDownToRootTest ==
    \A i \in 1..Len(mgr.log) :
        LET n == BindCount(mgr.log[i].binds)
        IN mgr.log[i].where =
              IF n = 0 THEN "1=1" ELSE NestFrom(mgr.log[i].node, 0, RootTest(n))

\* the query of the spokes of front was executed with two binds
C12_Witness ==
    \E i \in 1..Len(mgr.log) :
        /\ mgr.log[i].node = <<"front", "spokes">>
        /\ BindCount(mgr.log[i].binds) = 2

----------------------------------------------------------------------------
(* C13: whatever builds were made, every Factory an Inventory refers to is *)
(* as it was constructed: no parent link, empty processor queues, no       *)
(* order.  A level entered through a relationship runs on a copy of its    *)
(* own, and the parent link, to the level that entered it, is on the copy. *)
C13_SharedChildrenUntouched ==
    /\ \A f \in FactoryNames \ {RootFactory} :
          registry[f] = NewFactory(f, registry[f].model)
    /\ IsNone(registry[RootFactory].parent)
    /\ \A k \in 2..Len(stack) :
          /\ ~stack[k].shared
          /\ HasParent(stack, k)
          /\ ParentLevel(stack, k) = k - 1
          /\ ParentInventory(stack, k) =
                inventory(stack[k - 1].name, stack[k].node[Len(stack[k].node)])

\* a second build returned after it entered the wheel Factory as front and
\* as rear and the spoke Factory beneath front; the first built a model too
C13_Witness ==
    /\ nbuilds = 2
    /\ state = "returned"
    /\ LogNodes = << <<>>, <<"front">>, <<"front", "spokes">>, <<"rear">> >>
    /\ \E i \in 1..Len(registry[RootFactory].processors[1].models) :
          registry[RootFactory].processors[1].models[i].b = 1

----------------------------------------------------------------------------
(* A build suspended by a build, as the claim speaks of it *)

\* the suspended build went on after the inner build returned
Resumed == IF IsNone(outer) THEN FALSE ELSE outer.phase = "resumed"

\* the root models the suspended build constructed, by internal id
OwnRootMap ==
    IF Has(outer.model_map.dict, model_key(RootModel))
    THEN Get(outer.model_map.dict, model_key(RootModel))
    ELSE <<>>

(* C14: a build that was suspended in a callback by a second build on the  *)
(* same root Factory selects what it returns from the model map the second *)
(* build left on the Factory: every model it returns was constructed by    *)
(* the second build and none is of its own, so what it returns differs     *)
(* from what it returns when nothing interrupts it.                        *)
C14_SuspendedBuildReturnsInnerModels ==
    (state = "returned" /\ Resumed) =>
        \A k \in 1..Len(Items(result.ret)) :
            /\ Items(result.ret)[k].b = nbuilds
            /\ \A j \in 1..Len(OwnRootMap) : OwnRootMap[j][2] # Items(result.ret)[k]

\* a suspended build with ids None that constructed a root model of its own
\* returned one model, of another id, which the inner build constructed
C14_Witness ==
    /\ state = "returned"
    /\ Resumed
    /\ IsNone(ids)
    /\ Len(OwnRootMap) = 1
    /\ Len(Items(result.ret)) = 1
    /\ Items(result.ret)[1].b = nbuilds
    /\ heap[Items(result.ret)[1].n].id # OwnRootMap[1][1]

====
